---- MODULE Spec2Model ----
(***************************************************************************)
(* Family Talks: the member directory, the role-permission table, the      *)
(* admin-action log and the message store, as kept in AsyncStorage by      *)
(* AuthService and StorageService and used by the chat screen.             *)
(*                                                                         *)
(* Conventions.  A value that is null/undefined in the program is the      *)
(* empty sequence <<>>, a present value v is <<v>>.  Names are sequences   *)
(* of characters so that toLowerCase is computed, not assumed.  Date       *)
(* values are numbers drawn from Times at each `new Date()`.  Member       *)
(* fields that no operation of AuthService reads (deviceId, joinedAt,      *)
(* email, phone, avatar) and the free-text `details` of an admin action    *)
(* are left out of the records.                                            *)
(***************************************************************************)
EXTENDS Integers, Sequences, FiniteSets, TLC

VARIABLES
  familyCode,      \* AsyncStorage: family_talks_family_code
  members,         \* AsyncStorage: family_talks_family_members
  currentUser,     \* AsyncStorage: family_talks_current_user
  familySettings,  \* AsyncStorage: family_talks_family_settings
  adminActions,    \* AsyncStorage: family_talks_admin_actions
  messages,        \* AsyncStorage: family_talks_messages
  chat,            \* the ChatScreen: route parameters and React state
  nextUserId,      \* the ids generateUserId has given out
  nextActionId,    \* the ids generateActionId has given out
  nextMessageId,   \* the ids sendMessage has given out
  creator,         \* the member the last successful createFamily returned
  last,            \* the last AuthService call and its outcome
  query,           \* the last RolePermissions call and its result
  running          \* the AuthService calls in flight, each at one of its awaits

authVars == <<familyCode, members, currentUser, familySettings, adminActions,
              nextUserId, nextActionId, creator, last>>
chatVars == <<messages, chat, nextMessageId>>
vars == <<authVars, chatVars, query, running>>

\* ------------------------------------------------------------------ bounds
MaxIds == 3
MaxAdminOps == 1
MaxTime == 1

Times == 1..MaxTime
MemberIds == 1..MaxIds

\* ------------------------------------------------------------------ inputs
FamilyCodes == {"FAM123"}
LoginCodes == {"FAM123", "FAM999"}
Names == {<<"A", "l">>, <<"a", "l">>, <<"B", "o">>}
CreatorNames == {<<"A", "l">>}
NewNames == {<<"a", "l">>, <<"B", "o">>}
RenameNames == {<<"B", "o">>}

\* ------------------------------------------------- RolePermissions.ts
Roles == {"admin", "parent", "grandparent", "child", "other"}

Capabilities == {"canAddMembers", "canRemoveMembers", "canEditMembers",
                 "canManageSettings", "canModerateContent", "canViewAnalytics",
                 "canManageBackup", "canInviteGuests"}

\* A bug the table could have: the default branch shares the grandparent's
\* row, so that an unrecognised role may view analytics.
getRolePermissionsLooseDefault(role) ==
  [canAddMembers |-> role \in {"admin", "parent"},
   canRemoveMembers |-> role = "admin",
   canEditMembers |-> role \in {"admin", "parent"},
   canManageSettings |-> role = "admin",
   canModerateContent |-> role \in {"admin", "parent"},
   canViewAnalytics |-> role \notin {"child", "other"},
   canManageBackup |-> role = "admin",
   canInviteGuests |-> role \in {"admin", "parent"}]

getRolePermissions(role) ==
  CASE role = "admin" ->
         [canAddMembers |-> TRUE, canRemoveMembers |-> TRUE,
          canEditMembers |-> TRUE, canManageSettings |-> TRUE,
          canModerateContent |-> TRUE, canViewAnalytics |-> TRUE,
          canManageBackup |-> TRUE, canInviteGuests |-> TRUE]
    [] role = "parent" ->
         [canAddMembers |-> TRUE, canRemoveMembers |-> FALSE,
          canEditMembers |-> TRUE, canManageSettings |-> FALSE,
          canModerateContent |-> TRUE, canViewAnalytics |-> TRUE,
          canManageBackup |-> FALSE, canInviteGuests |-> TRUE]
    [] role = "grandparent" ->
         [canAddMembers |-> FALSE, canRemoveMembers |-> FALSE,
          canEditMembers |-> FALSE, canManageSettings |-> FALSE,
          canModerateContent |-> FALSE, canViewAnalytics |-> TRUE,
          canManageBackup |-> FALSE, canInviteGuests |-> FALSE]
    [] role = "child" ->
         [canAddMembers |-> FALSE, canRemoveMembers |-> FALSE,
          canEditMembers |-> FALSE, canManageSettings |-> FALSE,
          canModerateContent |-> FALSE, canViewAnalytics |-> FALSE,
          canManageBackup |-> FALSE, canInviteGuests |-> FALSE]
    [] OTHER ->
         [canAddMembers |-> FALSE, canRemoveMembers |-> FALSE,
          canEditMembers |-> FALSE, canManageSettings |-> FALSE,
          canModerateContent |-> FALSE, canViewAnalytics |-> FALSE,
          canManageBackup |-> FALSE, canInviteGuests |-> FALSE]

hasPermission(userRole, permission) == getRolePermissions(userRole)[permission]

isAdmin(userRole) == userRole = "admin"

canManageMembers(userRole) ==
  \/ hasPermission(userRole, "canAddMembers")
  \/ hasPermission(userRole, "canRemoveMembers")
  \/ hasPermission(userRole, "canEditMembers")

canChangeRole(currentRole, newRole, adminRole) ==
  IF adminRole # "admin" THEN FALSE
  ELSE IF currentRole = "admin" /\ newRole # "admin" THEN FALSE
  ELSE IF newRole = "admin" THEN FALSE
  ELSE TRUE

\* ------------------------------------------------------------ JS helpers
\* String.prototype.toLowerCase over the characters that occur in the names.
lowerChar(c) ==
  CASE c = "A" -> "a"
    [] c = "B" -> "b"
    [] c = "C" -> "c"
    [] OTHER -> c

toLowerCase(s) == [i \in DOMAIN s |-> lowerChar(s[i])]

\* JavaScript truthiness of an optional string: neither null nor "".
truthy(opt) == opt # <<>> /\ opt[1] # ""

\* Array.prototype.findIndex; 0 stands for -1 (sequences are 1-based).
findIndex(ms, P(_)) ==
  IF \E i \in DOMAIN ms : P(ms[i])
    THEN CHOOSE i \in DOMAIN ms : P(ms[i]) /\ \A j \in 1..(i - 1) : ~P(ms[j])
    ELSE 0

\* Array.prototype.filter keeps the elements that pass, in their order.
filter(ms, P(_)) == SelectSeq(ms, P)

\* ------------------------------------------------------- record of a call
\* What the last call was, how it ended (err = "ok" is success) and the
\* member it returned, if any.
NoCall == [op |-> "none", err |-> "ok", ret |-> <<>>]

\* The caller-supplied actor object: a member record as the screens hold it,
\* either a record of the directory or the (possibly stale) session record.
\* The service reads only its id and its role.
Actors == {[id |-> members[i].id, role |-> members[i].role] :
             i \in DOMAIN members} \cup
          {[id |-> currentUser[i].id, role |-> currentUser[i].role] :
             i \in DOMAIN currentUser}

\* The ChatScreen before it is mounted: no route parameters, no user, no list.
NoChat == [open |-> FALSE, memberId |-> <<>>, chatId |-> <<>>,
           currentUser |-> <<>>, messages |-> <<>>]

NoQuery == [fn |-> "none", role |-> "", permission |-> "", newRole |-> "",
            adminRole |-> "", permissions |-> <<>>, answer |-> FALSE]

\* The asynchronous calls that can be in flight together, and a call that has
\* not started: its arguments, the await it stands at (pc), what its reads
\* returned (storedFamilyCode, familyMembers, actions) and how it ended.
MaxConcurrentCalls == 2
Slots == 1..MaxConcurrentCalls

NoRunningCall ==
  [op |-> "none", pc |-> "idle", calls |-> 0,
   adminUser |-> [id |-> 0, role |-> ""], memberId |-> 0,
   updates |-> [name |-> <<>>, role |-> <<>>, permissions |-> <<>>],
   name |-> <<>>, storedFamilyCode |-> <<>>, familyMembers |-> <<>>,
   actions |-> <<>>, err |-> "ok", ret |-> <<>>]

\* ------------------------------------------------------------------ Init
Init ==
  /\ familyCode = <<>>
  /\ members = <<>>
  /\ currentUser = <<>>
  /\ familySettings = <<>>
  /\ adminActions = <<>>
  /\ nextUserId = 1
  /\ nextActionId = 1
  /\ creator = <<>>
  /\ last = NoCall
  /\ messages = <<>>
  /\ nextMessageId = 1
  /\ chat = NoChat
  /\ query = NoQuery
  /\ running = [s \in Slots |-> NoRunningCall]

\* ------------------------------------------------- AuthService.createFamily
\* A bug createFamily could have: the first member is made a parent.
firstMemberAsParent(id, name, t) ==
  [id |-> id, name |-> name, isOnline |-> TRUE, lastSeen |-> t,
   role |-> "parent", isActive |-> TRUE,
   permissions |-> getRolePermissions("parent")]

\* The record createFamily creates: the first member is the administrator.
firstMember(id, name, t) ==
  [id |-> id, name |-> name, isOnline |-> TRUE, lastSeen |-> t,
   role |-> "admin", isActive |-> TRUE,
   permissions |-> getRolePermissions("admin")]

\* The settings createFamily stores; the family is named after its creator.
defaultSettings(name) ==
  [familyName |-> name \o <<"'", "s", " ", "F", "a", "m", "i", "l", "y">>,
   allowGuestInvites |-> FALSE,
   messageRetentionDays |-> 365,
   requireApprovalForJoining |-> FALSE,
   maxMembers |-> 20,
   autoArchiveOldChats |-> TRUE,
   emergencyContacts |-> <<>>]

\* Whether each AsyncStorage call of createFamily resolves (TRUE) or rejects
\* (FALSE): getItem of the family code, then setItem of the family code, of
\* the member directory, of the current user and of the family settings.
CreateOutcomes ==
  [readCode : BOOLEAN, writeCode : BOOLEAN, writeMembers : BOOLEAN,
   writeUser : BOOLEAN, writeSettings : BOOLEAN]

CreateWorks ==
  [readCode |-> TRUE, writeCode |-> TRUE, writeMembers |-> TRUE,
   writeUser |-> TRUE, writeSettings |-> TRUE]

\* createFamily with the outcome io of its storage calls.  The first call
\* that rejects throws into the catch block, which rethrows 'Failed to create
\* family'; what was written before it stays written.
createFamilyOn(io, code, name, t) ==
  IF ~io.readCode \/ truthy(familyCode)
    THEN \* 'Family already exists' is thrown inside the try block, and the
         \* catch block rethrows it as 'Failed to create family'.
         /\ last' = [NoCall EXCEPT !.op = "createFamily",
                                   !.err = "FailedToCreateFamily"]
         /\ UNCHANGED <<familyCode, members, currentUser, familySettings,
                        adminActions, nextUserId, nextActionId, creator>>
    ELSE LET adminMember == firstMember(nextUserId, name, t)
             codeSaved == io.writeCode
             membersSaved == codeSaved /\ io.writeMembers
             userSaved == membersSaved /\ io.writeUser
             settingsSaved == userSaved /\ io.writeSettings
         IN /\ familyCode' = IF codeSaved THEN <<code>> ELSE familyCode
            /\ members' = IF membersSaved THEN <<adminMember>> ELSE members
            /\ currentUser' = IF userSaved THEN <<adminMember>>
                                            ELSE currentUser
            /\ familySettings' = IF settingsSaved
                                   THEN <<defaultSettings(name)>>
                                   ELSE familySettings
            /\ nextUserId' = nextUserId + 1
            /\ creator' = IF settingsSaved THEN <<adminMember>> ELSE creator
            /\ last' = IF settingsSaved
                         THEN [NoCall EXCEPT !.op = "createFamily",
                                             !.ret = <<adminMember>>]
                         ELSE [NoCall EXCEPT !.op = "createFamily",
                                             !.err = "FailedToCreateFamily"]
            /\ UNCHANGED <<adminActions, nextActionId>>

\* createFamily while every storage call resolves.
createFamily(code, name, t) == createFamilyOn(CreateWorks, code, name, t)

\* ------------------------------------- AuthService.authenticateFamilyMember
\* A bug the code check could have: a missing family code accepts any code.
invalidFamilyCodeIfStored(storedFamilyCode, code) ==
  storedFamilyCode # <<>> /\ storedFamilyCode # <<code>>

invalidFamilyCode(storedFamilyCode, code) == storedFamilyCode # <<code>>

\* A bug the name lookup could have: names compared with their case.
findByNameExact(ms, memberName) ==
  findIndex(ms, LAMBDA m : m.name = memberName)

\* familyMembers.find(member => member.name.toLowerCase() === ...), as an index.
findByName(ms, memberName) ==
  findIndex(ms, LAMBDA m : toLowerCase(m.name) = toLowerCase(memberName))

\* A bug the login could have: a returning member is reset to the default role.
existingUserAsOther(member, t) ==
  [member EXCEPT !.lastSeen = t, !.isOnline = TRUE, !.role = "other",
                 !.permissions = getRolePermissions("other")]

\* existingUser.lastSeen = new Date(); existingUser.isOnline = true
existingUserSeen(member, t) ==
  [member EXCEPT !.lastSeen = t, !.isOnline = TRUE]

authenticateFamilyMember(code, name, t) ==
  IF invalidFamilyCode(familyCode, code)
    THEN /\ last' = [NoCall EXCEPT !.op = "authenticate",
                                   !.err = "InvalidFamilyCode"]
         /\ UNCHANGED <<familyCode, members, currentUser, familySettings,
                        adminActions, nextUserId, nextActionId, creator>>
    ELSE LET idx == findByName(members, name)
         IN IF idx # 0
              THEN LET existingUser == existingUserSeen(members[idx], t)
                   IN /\ members' = [members EXCEPT ![idx] = existingUser]
                      /\ currentUser' = <<existingUser>>
                      /\ last' = [NoCall EXCEPT !.op = "authenticate",
                                                !.ret = <<existingUser>>]
                      /\ UNCHANGED <<familyCode, familySettings, adminActions,
                                     nextUserId, nextActionId, creator>>
              ELSE LET newMember == [id |-> nextUserId, name |-> name,
                                     isOnline |-> TRUE, lastSeen |-> t,
                                     role |-> "other", isActive |-> TRUE,
                                     permissions |-> getRolePermissions("other")]
                   IN /\ members' = Append(members, newMember)
                      /\ currentUser' = <<newMember>>
                      /\ nextUserId' = nextUserId + 1
                      /\ last' = [NoCall EXCEPT !.op = "authenticate",
                                                !.ret = <<newMember>>]
                      /\ UNCHANGED <<familyCode, familySettings, adminActions,
                                     nextActionId, creator>>

\* ------------------------------------------------- AsyncStorage outcomes
\* Whether each AsyncStorage call of an admin operation resolves (TRUE) or
\* rejects (FALSE): getItem and setItem of the member directory, getItem and
\* setItem of the admin-action log.  A rejected setItem has written nothing.
StorageOutcomes ==
  [readMembers : BOOLEAN, writeMembers : BOOLEAN,
   readLog : BOOLEAN, writeLog : BOOLEAN]

StorageWorks ==
  [readMembers |-> TRUE, writeMembers |-> TRUE,
   readLog |-> TRUE, writeLog |-> TRUE]

\* AuthService.getFamilyMembers: the stored array; [] when nothing is stored
\* and, through its catch block, [] when the read fails.
getFamilyMembers(io) == IF io.readMembers THEN members ELSE <<>>

\* ------------------------------------------------ AuthService.logAdminAction
MaxLoggedActions == 100

\* A bug the truncation could have: slice(0, n), the first n elements.
sliceFirst(s, n) ==
  IF Len(s) <= n THEN s ELSE SubSeq(s, 1, n)

\* Array.prototype.slice(-n): the last n elements (all of them if fewer).
sliceLast(s, n) ==
  IF Len(s) <= n THEN s ELSE SubSeq(s, Len(s) - n + 1, Len(s))

\* A bug logAdminAction could have: the record is built and never stored.
logAdminActionDropped(actions, adminId, operation, targetMemberId) == actions

logAdminAction(actions, adminId, operation, targetMemberId) ==
  LET newAction == [id |-> nextActionId, adminId |-> adminId,
                    targetMemberId |-> targetMemberId,
                    operation |-> operation]
      pushed == Append(actions, newAction)
  IN IF Len(pushed) > MaxLoggedActions
       THEN sliceLast(pushed, MaxLoggedActions)
       ELSE pushed

\* A bug logAdminAction could have: a failed write leaves an empty log.
loggedOrCleared(actions, adminId, operation, targetMemberId, io) ==
  IF io.readLog /\ io.writeLog
    THEN logAdminAction(actions, adminId, operation, targetMemberId)
    ELSE <<>>

\* logAdminAction with its try/catch: when the read or the write of the log
\* rejects, the error is logged to the console and the stored log stays.
logged(actions, adminId, operation, targetMemberId, io) ==
  IF io.readLog /\ io.writeLog
    THEN logAdminAction(actions, adminId, operation, targetMemberId)
    ELSE actions

\* generateActionId is reached only after the log was read.
actionIdsAfter(io) == IF io.readLog THEN nextActionId + 1 ELSE nextActionId

\* A bug the operations could have: a refused call is logged as well.
RejectedAndLogged(call) ==
  /\ last' = call
  /\ adminActions' = Append(adminActions,
                            [id |-> nextActionId, adminId |-> 0,
                             targetMemberId |-> 0, operation |-> call.op])
  /\ UNCHANGED <<familyCode, members, currentUser, familySettings,
                 nextUserId, nextActionId, creator>>

\* A call that threw before it wrote anything.
Rejected(call) ==
  /\ last' = call
  /\ UNCHANGED <<familyCode, members, currentUser, familySettings,
                 adminActions, nextUserId, nextActionId, creator>>

\* ---------------------------------------------- AuthService.addFamilyMember
\* A bug addFamilyMember could have: the collision test compares the names
\* with their letter case.
addErrorExactName(adminUser, memberName, ms) ==
  IF ~hasPermission(adminUser.role, "canAddMembers")
    THEN "InsufficientPermissions"
  ELSE IF findIndex(ms, LAMBDA m : m.name = memberName) # 0
    THEN "DuplicateMember"
  ELSE "ok"

addError(adminUser, memberName, ms) ==
  IF ~hasPermission(adminUser.role, "canAddMembers")
    THEN "InsufficientPermissions"
  ELSE IF findByName(ms, memberName) # 0
    THEN "DuplicateMember"
  ELSE "ok"

\* A bug addFamilyMember could have: the new member is created online.
addedMemberOnline(id, memberName, role, t) ==
  [id |-> id, name |-> memberName, isOnline |-> TRUE, lastSeen |-> t,
   role |-> role, isActive |-> TRUE,
   permissions |-> getRolePermissions(role)]

\* The record addFamilyMember creates.
addedMember(id, memberName, role, t) ==
  [id |-> id, name |-> memberName, isOnline |-> FALSE, lastSeen |-> t,
   role |-> role, isActive |-> TRUE,
   permissions |-> getRolePermissions(role)]

\* addFamilyMember with the outcome io of its storage calls.
addFamilyMemberOn(io, adminUser, memberName, role, t) ==
  LET familyMembers == getFamilyMembers(io)
      err == addError(adminUser, memberName, familyMembers)
      call == [NoCall EXCEPT !.op = "addMember", !.err = err]
      newMember == addedMember(nextUserId, memberName, role, t)
  IN IF err # "ok"
       THEN Rejected(call)
     ELSE IF ~io.writeMembers
       THEN Rejected([call EXCEPT !.err = "FailedToSaveFamilyMembers"])
       ELSE /\ members' = Append(familyMembers, newMember)
            /\ nextUserId' = nextUserId + 1
            /\ adminActions' = logged(adminActions, adminUser.id,
                                      "add_member", newMember.id, io)
            /\ nextActionId' = actionIdsAfter(io)
            /\ last' = [call EXCEPT !.ret = <<newMember>>]
            /\ UNCHANGED <<familyCode, currentUser, familySettings, creator>>

\* addFamilyMember while every storage call resolves.
addFamilyMember(adminUser, memberName, role, t) ==
  addFamilyMemberOn(StorageWorks, adminUser, memberName, role, t)

\* --------------------------------------------- AuthService.editFamilyMember
\* updates is a Partial<FamilyMember>: each of name, role and permissions is
\* absent (<<>>) or present (<<value>>).
Updates ==
  {u \in [name : {<<>>} \cup {<<n>> : n \in RenameNames},
          role : {<<>>} \cup {<<r>> : r \in Roles},
          permissions : {<<>>, <<getRolePermissions("admin")>>}] :
     u.permissions = <<>> \/ (u.name = <<>> /\ u.role \in {<<>>, <<"child">>})}

\* A bug editFamilyMember could have: no guard on the administrator's role.
editErrorUnguarded(adminUser, memberId, updates, ms) ==
  LET memberIndex == findIndex(ms, LAMBDA m : m.id = memberId)
  IN IF ~hasPermission(adminUser.role, "canEditMembers")
       THEN "InsufficientPermissions"
     ELSE IF memberIndex = 0
       THEN "MemberNotFound"
     ELSE "ok"

editError(adminUser, memberId, updates, ms) ==
  LET memberIndex == findIndex(ms, LAMBDA m : m.id = memberId)
  IN IF ~hasPermission(adminUser.role, "canEditMembers")
       THEN "InsufficientPermissions"
     ELSE IF memberIndex = 0
       THEN "MemberNotFound"
     ELSE IF truthy(updates.role) /\ ms[memberIndex].role = "admin"
             /\ memberId # adminUser.id
       THEN "ForbiddenRoleChange"
     ELSE "ok"

\* A bug editFamilyMember could have: the role is overwritten by the spread
\* and the permission set is left as it was.
editedMemberStalePermissions(member, updates) ==
  [id |-> member.id,
   name |-> IF updates.name # <<>> THEN updates.name[1] ELSE member.name,
   isOnline |-> member.isOnline,
   lastSeen |-> member.lastSeen,
   role |-> IF updates.role # <<>> THEN updates.role[1] ELSE member.role,
   isActive |-> member.isActive,
   permissions |-> member.permissions]

\* { ...member, ...updates, permissions: ... }
editedMember(member, updates) ==
  [id |-> member.id,
   name |-> IF updates.name # <<>> THEN updates.name[1] ELSE member.name,
   isOnline |-> member.isOnline,
   lastSeen |-> member.lastSeen,
   role |-> IF updates.role # <<>> THEN updates.role[1] ELSE member.role,
   isActive |-> member.isActive,
   permissions |-> IF truthy(updates.role)
                     THEN getRolePermissions(updates.role[1])
                     ELSE member.permissions]

\* editFamilyMember with the outcome io of its storage calls.
editFamilyMemberOn(io, adminUser, memberId, updates) ==
  LET familyMembers == getFamilyMembers(io)
      err == editError(adminUser, memberId, updates, familyMembers)
      call == [NoCall EXCEPT !.op = "editMember", !.err = err]
      memberIndex == findIndex(familyMembers, LAMBDA m : m.id = memberId)
  IN IF err # "ok"
       THEN Rejected(call)
     ELSE IF ~io.writeMembers
       THEN Rejected([call EXCEPT !.err = "FailedToSaveFamilyMembers"])
       ELSE LET updatedMember ==
                  editedMember(familyMembers[memberIndex], updates)
            IN /\ members' = [familyMembers EXCEPT
                                ![memberIndex] = updatedMember]
               /\ adminActions' = logged(adminActions, adminUser.id,
                                         "edit_member", memberId, io)
               /\ nextActionId' = actionIdsAfter(io)
               /\ last' = [call EXCEPT !.ret = <<updatedMember>>]
               /\ UNCHANGED <<familyCode, currentUser, familySettings,
                              nextUserId, creator>>

\* editFamilyMember while every storage call resolves.
editFamilyMember(adminUser, memberId, updates) ==
  editFamilyMemberOn(StorageWorks, adminUser, memberId, updates)

\* ------------------------------------------- AuthService.removeFamilyMember
\* A bug removeFamilyMember could have: the member is looked up before the
\* permission is checked.
removeErrorLookupFirst(adminUser, memberId, ms) ==
  LET memberIndex == findIndex(ms, LAMBDA m : m.id = memberId)
  IN IF memberIndex = 0
       THEN "MemberNotFound"
     ELSE IF ~hasPermission(adminUser.role, "canRemoveMembers")
       THEN "InsufficientPermissions"
     ELSE IF ms[memberIndex].role = "admin"
       THEN "CannotRemoveAdmin"
     ELSE IF memberId = adminUser.id
       THEN "CannotRemoveSelf"
     ELSE "ok"

removeError(adminUser, memberId, ms) ==
  LET memberIndex == findIndex(ms, LAMBDA m : m.id = memberId)
  IN IF ~hasPermission(adminUser.role, "canRemoveMembers")
       THEN "InsufficientPermissions"
     ELSE IF memberIndex = 0
       THEN "MemberNotFound"
     ELSE IF ms[memberIndex].role = "admin"
       THEN "CannotRemoveAdmin"
     ELSE IF memberId = adminUser.id
       THEN "CannotRemoveSelf"
     ELSE "ok"

\* A bug removeFamilyMember could have: the array is cut at the target, so
\* the members stored after it are lost too.
withoutMemberAndRest(ms, memberId) ==
  SubSeq(ms, 1, findIndex(ms, LAMBDA m : m.id = memberId) - 1)

\* familyMembers.filter(m => m.id !== memberId)
withoutMember(ms, memberId) == filter(ms, LAMBDA m : m.id # memberId)

\* removeFamilyMember with the outcome io of its storage calls.
removeFamilyMemberOn(io, adminUser, memberId) ==
  LET familyMembers == getFamilyMembers(io)
      err == removeError(adminUser, memberId, familyMembers)
      call == [NoCall EXCEPT !.op = "removeMember", !.err = err]
  IN IF err # "ok"
       THEN Rejected(call)
     ELSE IF ~io.writeMembers
       THEN Rejected([call EXCEPT !.err = "FailedToSaveFamilyMembers"])
       ELSE /\ members' = withoutMember(familyMembers, memberId)
            /\ adminActions' = logged(adminActions, adminUser.id,
                                      "remove_member", memberId, io)
            /\ nextActionId' = actionIdsAfter(io)
            /\ last' = call
            /\ UNCHANGED <<familyCode, currentUser, familySettings,
                           nextUserId, creator>>

\* removeFamilyMember while every storage call resolves.
removeFamilyMember(adminUser, memberId) ==
  removeFamilyMemberOn(StorageWorks, adminUser, memberId)

\* --------------------------------------------- AuthService.changeMemberRole
\* A bug changeMemberRole could have: no guard on the administrator's role.
changeRoleErrorUnguarded(adminUser, memberId, ms) ==
  LET memberIndex == findIndex(ms, LAMBDA m : m.id = memberId)
  IN IF ~hasPermission(adminUser.role, "canEditMembers")
       THEN "InsufficientPermissions"
     ELSE IF memberIndex = 0
       THEN "MemberNotFound"
     ELSE "ok"

changeRoleError(adminUser, memberId, ms) ==
  LET memberIndex == findIndex(ms, LAMBDA m : m.id = memberId)
  IN IF ~hasPermission(adminUser.role, "canEditMembers")
       THEN "InsufficientPermissions"
     ELSE IF memberIndex = 0
       THEN "MemberNotFound"
     ELSE IF ms[memberIndex].role = "admin"
       THEN "CannotChangeAdminRole"
     ELSE "ok"

\* A bug changeMemberRole could have: the role changes, the permissions stay.
roleChangedMemberStalePermissions(member, newRole) ==
  [member EXCEPT !.role = newRole]

roleChangedMember(member, newRole) ==
  [member EXCEPT !.role = newRole,
                 !.permissions = getRolePermissions(newRole)]

\* changeMemberRole with the outcome io of its storage calls.
changeMemberRoleOn(io, adminUser, memberId, newRole) ==
  LET familyMembers == getFamilyMembers(io)
      err == changeRoleError(adminUser, memberId, familyMembers)
      call == [NoCall EXCEPT !.op = "changeRole", !.err = err]
      memberIndex == findIndex(familyMembers, LAMBDA m : m.id = memberId)
  IN IF err # "ok"
       THEN Rejected(call)
     ELSE IF ~io.writeMembers
       THEN Rejected([call EXCEPT !.err = "FailedToSaveFamilyMembers"])
       ELSE LET updatedMember ==
                  roleChangedMember(familyMembers[memberIndex], newRole)
            IN /\ members' = [familyMembers EXCEPT
                                ![memberIndex] = updatedMember]
               /\ adminActions' = logged(adminActions, adminUser.id,
                                         "change_role", memberId, io)
               /\ nextActionId' = actionIdsAfter(io)
               /\ last' = [call EXCEPT !.ret = <<updatedMember>>]
               /\ UNCHANGED <<familyCode, currentUser, familySettings,
                              nextUserId, creator>>

\* changeMemberRole while every storage call resolves.
changeMemberRole(adminUser, memberId, newRole) ==
  changeMemberRoleOn(StorageWorks, adminUser, memberId, newRole)

\* --------------------------------------- AuthService.updateUserOnlineStatus
\* t1 is the `new Date()` of the member record, t2 the later one of the
\* session record.
statusUpdatedMembers(ms, userId, isOnline, t1) ==
  [i \in DOMAIN ms |->
     IF ms[i].id = userId
       THEN [ms[i] EXCEPT !.isOnline = isOnline, !.lastSeen = t1]
       ELSE ms[i]]

statusUpdatedUser(cu, userId, isOnline, t2) ==
  IF cu # <<>> /\ cu[1].id = userId
    THEN <<[cu[1] EXCEPT !.isOnline = isOnline, !.lastSeen = t2]>>
    ELSE cu

updateUserOnlineStatus(userId, isOnline, t1, t2) ==
  /\ members' = statusUpdatedMembers(members, userId, isOnline, t1)
  /\ currentUser' = statusUpdatedUser(currentUser, userId, isOnline, t2)
  /\ last' = [NoCall EXCEPT !.op = "updateUserOnlineStatus"]
  /\ UNCHANGED <<familyCode, familySettings, adminActions, nextUserId,
                 nextActionId, creator>>

\* ------------------------------------------------------- AuthService.logout
logout(t1) ==
  /\ members' = IF currentUser # <<>>
                  THEN statusUpdatedMembers(members, currentUser[1].id,
                                            FALSE, t1)
                  ELSE members
  /\ currentUser' = <<>>
  /\ last' = [NoCall EXCEPT !.op = "logout"]
  /\ UNCHANGED <<familyCode, familySettings, adminActions, nextUserId,
                 nextActionId, creator>>

\* ------------------------------------------------------------- operations
CreateFamily ==
  \E code \in FamilyCodes, name \in CreatorNames, t \in Times :
     /\ createFamily(code, name, t)
     /\ nextUserId' <= MaxIds + 1
     /\ UNCHANGED <<chatVars, query, running>>

Authenticate ==
  \E code \in LoginCodes, name \in Names, t \in Times :
     /\ authenticateFamilyMember(code, name, t)
     /\ nextUserId' <= MaxIds + 1
     /\ UNCHANGED <<chatVars, query, running>>

AddMember ==
  \E adminUser \in Actors, name \in NewNames, role \in Roles, t \in Times :
     /\ addFamilyMember(adminUser, name, role, t)
     /\ nextUserId' <= MaxIds + 1
     /\ nextActionId' <= MaxAdminOps + 1
     /\ UNCHANGED <<chatVars, query, running>>

EditMember ==
  \E adminUser \in Actors, memberId \in MemberIds, updates \in Updates :
     /\ editFamilyMember(adminUser, memberId, updates)
     /\ nextActionId' <= MaxAdminOps + 1
     /\ UNCHANGED <<chatVars, query, running>>

RemoveMember ==
  \E adminUser \in Actors, memberId \in MemberIds :
     /\ removeFamilyMember(adminUser, memberId)
     /\ nextActionId' <= MaxAdminOps + 1
     /\ UNCHANGED <<chatVars, query, running>>

ChangeRole ==
  \E adminUser \in Actors, memberId \in MemberIds, newRole \in Roles :
     /\ changeMemberRole(adminUser, memberId, newRole)
     /\ nextActionId' <= MaxAdminOps + 1
     /\ UNCHANGED <<chatVars, query, running>>

UpdateUserOnlineStatus ==
  \E userId \in MemberIds, isOnline \in BOOLEAN, t1 \in Times, t2 \in Times :
     /\ t1 <= t2
     /\ updateUserOnlineStatus(userId, isOnline, t1, t2)
     /\ UNCHANGED <<chatVars, query, running>>

Logout == \E t1 \in Times : logout(t1) /\ UNCHANGED <<chatVars, query, running>>

Next ==
  \/ CreateFamily
  \/ Authenticate
  \/ AddMember
  \/ EditMember
  \/ RemoveMember
  \/ ChangeRole
  \/ UpdateUserOnlineStatus
  \/ Logout

Spec == Init /\ [][Next]_vars

\* ------------------------------------------------ the login screen's calls
\* createFamily, authenticate, status updates and logout alone, with a clock
\* that moves and with the empty string among the family codes.
MaxLoginTime == 2
LoginTimes == 1..MaxLoginTime
SessionFamilyCodes == {"", "FAM123"}
SessionLoginCodes == {"", "FAM123", "FAM999"}

LoginCreateFamily ==
  \E code \in SessionFamilyCodes, name \in CreatorNames, t \in LoginTimes :
     /\ createFamily(code, name, t)
     /\ nextUserId' <= MaxIds + 1
     /\ UNCHANGED <<chatVars, query, running>>

LoginAuthenticate ==
  \E code \in SessionLoginCodes, name \in Names, t \in LoginTimes :
     /\ authenticateFamilyMember(code, name, t)
     /\ nextUserId' <= MaxIds + 1
     /\ UNCHANGED <<chatVars, query, running>>

LoginUpdateStatus ==
  \E userId \in MemberIds, isOnline \in BOOLEAN,
     t1 \in LoginTimes, t2 \in LoginTimes :
     /\ t1 <= t2
     /\ updateUserOnlineStatus(userId, isOnline, t1, t2)
     /\ UNCHANGED <<chatVars, query, running>>

LoginLogout ==
  \E t1 \in LoginTimes : logout(t1) /\ UNCHANGED <<chatVars, query, running>>

NextLogin ==
  \/ LoginCreateFamily
  \/ LoginAuthenticate
  \/ LoginUpdateStatus
  \/ LoginLogout

SpecLogin == Init /\ [][NextLogin]_vars

\* ------------------------------------- the login screen on failing storage

CreateFaultCreateFamily ==
  \E io \in CreateOutcomes, name \in CreatorNames, t \in LoginTimes :
     /\ createFamilyOn(io, "FAM123", name, t)
     /\ nextUserId' <= MaxIds + 1
     /\ UNCHANGED <<chatVars, query, running>>

CreateFaultAuthenticate ==
  \E name \in Names, t \in LoginTimes :
     /\ authenticateFamilyMember("FAM123", name, t)
     /\ nextUserId' <= MaxIds + 1
     /\ UNCHANGED <<chatVars, query, running>>

CreateFaultLogout ==
  \E t1 \in LoginTimes : logout(t1) /\ UNCHANGED <<chatVars, query, running>>

NextCreateFaults ==
  \/ CreateFaultCreateFamily
  \/ CreateFaultAuthenticate
  \/ CreateFaultLogout

SpecCreateFaults == Init /\ [][NextCreateFaults]_vars

\* ------------------------------------------ calls of the permission table
\* The screens call the table with a member's role; a role read back from
\* storage may be any string, so three unrecognised values are asked too.
UnknownRoles == {"", "guest", "ADMIN"}
RoleValues == Roles \cup UnknownRoles

GetRolePermissions ==
  \E role \in RoleValues :
     /\ query' = [NoQuery EXCEPT !.fn = "getRolePermissions", !.role = role,
                    !.permissions = <<getRolePermissions(role)>>]
     /\ UNCHANGED <<authVars, chatVars, running>>

HasPermission ==
  \E role \in RoleValues, permission \in Capabilities :
     /\ query' = [NoQuery EXCEPT !.fn = "hasPermission", !.role = role,
                    !.permission = permission,
                    !.answer = hasPermission(role, permission)]
     /\ UNCHANGED <<authVars, chatVars, running>>

CanManageMembers ==
  \E role \in RoleValues :
     /\ query' = [NoQuery EXCEPT !.fn = "canManageMembers", !.role = role,
                    !.answer = canManageMembers(role)]
     /\ UNCHANGED <<authVars, chatVars, running>>

IsAdmin ==
  \E role \in RoleValues :
     /\ query' = [NoQuery EXCEPT !.fn = "isAdmin", !.role = role,
                    !.answer = isAdmin(role)]
     /\ UNCHANGED <<authVars, chatVars, running>>

CanChangeRole ==
  \E currentRole \in Roles, newRole \in Roles, adminRole \in Roles :
     /\ query' = [NoQuery EXCEPT !.fn = "canChangeRole", !.role = currentRole,
                    !.newRole = newRole, !.adminRole = adminRole,
                    !.answer = canChangeRole(currentRole, newRole, adminRole)]
     /\ UNCHANGED <<authVars, chatVars, running>>

NextPermissions ==
  \/ GetRolePermissions
  \/ HasPermission
  \/ CanManageMembers
  \/ IsAdmin
  \/ CanChangeRole

SpecPermissions == Init /\ [][NextPermissions]_vars

\* ------------------------------------------- a long administrator session
\* The administrator adds a member, edits it, changes its role and removes
\* it, over and over: every call is logged, so the log passes its cap.
LogRunLength == 104

Administrator == [id |-> members[1].id, role |-> members[1].role]
NoUpdates == [name |-> <<>>, role |-> <<>>, permissions |-> <<>>]

WorkCreateFamily ==
  /\ familyCode = <<>>
  /\ createFamily("FAM123", <<"A", "l">>, 1)
  /\ UNCHANGED <<chatVars, query, running>>

WorkAddMember ==
  /\ Len(members) = 1
  /\ \E role \in {"child", "other"} :
        addFamilyMember(Administrator, <<"B", "o">>, role, 1)
  /\ nextActionId' <= LogRunLength + 1
  /\ UNCHANGED <<chatVars, query, running>>

WorkEditMember ==
  /\ Len(members) = 2
  /\ members[2].role \in {"child", "other"}
  /\ editFamilyMember(Administrator, members[2].id,
                      [NoUpdates EXCEPT !.role = <<"parent">>])
  /\ nextActionId' <= LogRunLength + 1
  /\ UNCHANGED <<chatVars, query, running>>

WorkChangeRole ==
  /\ Len(members) = 2
  /\ members[2].role = "parent"
  /\ changeMemberRole(Administrator, members[2].id, "grandparent")
  /\ nextActionId' <= LogRunLength + 1
  /\ UNCHANGED <<chatVars, query, running>>

WorkRemoveMember ==
  /\ Len(members) = 2
  /\ members[2].role = "grandparent"
  /\ removeFamilyMember(Administrator, members[2].id)
  /\ nextActionId' <= LogRunLength + 1
  /\ UNCHANGED <<chatVars, query, running>>

NextLog ==
  \/ WorkCreateFamily
  \/ WorkAddMember
  \/ WorkEditMember
  \/ WorkChangeRole
  \/ WorkRemoveMember

SpecLog == Init /\ [][NextLog]_vars

\* ------------------------------------------------------------ the chat screen
\* A message as ChatScreen.sendMessage builds it and StorageService keeps it:
\* its id, the sender's id, the receiver's id if the screen was opened for a
\* member, the chat id and the trimmed text.  The timestamp and the type
\* ('text') are read by no filter and are left out.
MaxMessages == 3

ChatNames == {<<"A", "l">>, <<"B", "o">>, <<"C", "y">>}
Drafts == {<<>>, <<" ">>, <<"h", "i">>, <<" ", "h", "i", " ">>}

\* String.prototype.trim over drafts made of letters and blanks.
RECURSIVE trimStart(_)
trimStart(s) ==
  IF s # <<>> /\ Head(s) = " " THEN trimStart(Tail(s)) ELSE s

RECURSIVE trimEnd(_)
trimEnd(s) ==
  IF s # <<>> /\ s[Len(s)] = " " THEN trimEnd(SubSeq(s, 1, Len(s) - 1)) ELSE s

trim(s) == trimEnd(trimStart(s))

\* user?.id : undefined when no user is stored.
idOf(user) == IF user = <<>> THEN <<>> ELSE <<user[1].id>>

\* The outcome of each AsyncStorage call on the messages key during one
\* operation: TRUE when the promise resolves, FALSE when it rejects.
MessageStoreOutcomes == [readMessages : BOOLEAN, writeMessages : BOOLEAN]
MessageStoreWorks == [readMessages |-> TRUE, writeMessages |-> TRUE]

\* StorageService.getMessages: the persisted array, [] when nothing is stored;
\* its catch also returns [] when the read rejects.
getMessagesOn(io) == IF io.readMessages THEN messages ELSE <<>>

getMessages == getMessagesOn(MessageStoreWorks)

\* StorageService.addMessage: read, push, save.  saveMessages throws when the
\* write rejects and nothing is stored then.
addMessageOn(io, message) ==
  IF io.writeMessages
    THEN messages' = Append(getMessagesOn(io), message)
    ELSE UNCHANGED messages

addMessage(message) == addMessageOn(MessageStoreWorks, message)

\* A bug the filter could have: only the messages the user sent are kept.
sentByUserToMember(msg, memberId, user) ==
  msg.senderId = idOf(user) /\ msg.receiverId = memberId

\* The predicate of the member branch of loadChatData.
betweenUserAndMember(msg, memberId, user) ==
  \/ (msg.senderId = memberId /\ msg.receiverId = idOf(user))
  \/ (msg.senderId = idOf(user) /\ msg.receiverId = memberId)

\* ChatScreen mounted with route parameters memberId and chatId (each absent
\* or present): loadChatData reads the user and filters the stored messages.
loadChatDataOn(io, memberId, chatId) ==
  LET user == currentUser
      filteredMessages ==
        IF chatId # <<>>
          THEN filter(getMessagesOn(io), LAMBDA msg : msg.chatId = chatId)
        ELSE IF memberId # <<>>
          THEN filter(getMessagesOn(io),
                      LAMBDA msg : betweenUserAndMember(msg, memberId, user))
        ELSE <<>>
  IN /\ chat' = [open |-> TRUE, memberId |-> memberId, chatId |-> chatId,
                 currentUser |-> user, messages |-> filteredMessages]
     /\ UNCHANGED <<messages, nextMessageId>>

loadChatData(memberId, chatId) ==
  loadChatDataOn(MessageStoreWorks, memberId, chatId)

\* ChatScreen.sendMessage with the draft newMessage in the input box.
\* When addMessage throws the catch only logs: the screen keeps its list.
sendMessageOn(io, newMessage) ==
  IF trim(newMessage) = <<>> \/ chat.currentUser = <<>>
    THEN UNCHANGED chatVars
    ELSE LET message ==
               [id |-> nextMessageId,
                content |-> trim(newMessage),
                senderId |-> idOf(chat.currentUser),
                receiverId |-> chat.memberId,
                chatId |-> IF chat.chatId # <<>>
                             THEN chat.chatId
                             ELSE <<<<"chat", idOf(chat.currentUser),
                                      chat.memberId>>>>]
         IN /\ addMessageOn(io, message)
            /\ chat' = IF io.writeMessages
                         THEN [chat EXCEPT !.messages = Append(@, message)]
                         ELSE chat
            /\ nextMessageId' = nextMessageId + 1

sendMessage(newMessage) == sendMessageOn(MessageStoreWorks, newMessage)

\* The family's members take turns on the device: one creates the family,
\* the others log in, each opens chats from the home screen and sends.
ChatCreateFamily ==
  /\ createFamily("FAM123", <<"A", "l">>, 1)
  /\ UNCHANGED <<chatVars, query, running>>

ChatAuthenticate ==
  \E name \in ChatNames :
     /\ authenticateFamilyMember("FAM123", name, 1)
     /\ nextUserId' <= MaxIds + 1
     /\ UNCHANGED <<chatVars, query, running>>

\* HomeScreen.handleMemberPress, SettingsScreen: navigate('Chat', {memberId}).
OpenChatWithMember ==
  \E i \in DOMAIN members :
     /\ loadChatData(<<members[i].id>>, <<>>)
     /\ UNCHANGED <<authVars, query, running>>

\* HomeScreen.handleMessagePress: navigate('Chat', {chatId: message.chatId}).
OpenChatOfMessage ==
  \E i \in DOMAIN messages :
     /\ loadChatData(<<>>, messages[i].chatId)
     /\ UNCHANGED <<authVars, query, running>>

SendMessage ==
  \E newMessage \in Drafts :
     /\ chat.open
     /\ sendMessage(newMessage)
     /\ nextMessageId' <= MaxMessages + 1
     /\ UNCHANGED <<authVars, query, running>>

NextChat ==
  \/ ChatCreateFamily
  \/ ChatAuthenticate
  \/ OpenChatWithMember
  \/ OpenChatOfMessage
  \/ SendMessage

SpecChat == Init /\ [][NextChat]_vars

\* ---------------------------------------- the chat screen on failing storage

MaxFaultMessages == 3

FaultDrafts == {<<" ">>, <<"h", "i">>}

FaultChatCreateFamily ==
  /\ createFamily("FAM123", <<"A", "l">>, 1)
  /\ UNCHANGED <<chatVars, query, running>>

FaultChatAuthenticate ==
  /\ authenticateFamilyMember("FAM123", <<"B", "o">>, 1)
  /\ nextUserId' <= MaxIds + 1
  /\ UNCHANGED <<chatVars, query, running>>

FaultOpenChatWithMember ==
  \E i \in DOMAIN members, io \in MessageStoreOutcomes :
     /\ loadChatDataOn(io, <<members[i].id>>, <<>>)
     /\ UNCHANGED <<authVars, query, running>>

FaultOpenChatOfMessage ==
  \E i \in DOMAIN messages, io \in MessageStoreOutcomes :
     /\ loadChatDataOn(io, <<>>, messages[i].chatId)
     /\ UNCHANGED <<authVars, query, running>>

FaultSendMessage ==
  \E newMessage \in FaultDrafts, io \in MessageStoreOutcomes :
     /\ chat.open
     /\ sendMessageOn(io, newMessage)
     /\ nextMessageId' <= MaxFaultMessages + 1
     /\ UNCHANGED <<authVars, query, running>>

NextChatFaults ==
  \/ FaultChatCreateFamily
  \/ FaultChatAuthenticate
  \/ FaultOpenChatWithMember
  \/ FaultOpenChatOfMessage
  \/ FaultSendMessage

SpecChatFaults == Init /\ [][NextChatFaults]_vars

\* ------------------------------------------- the administration screen's calls
\* The admin operations alone, after the family was created: every actor the
\* screen can hold (a stored member, or the session record, which goes stale
\* when the directory changes), every target, a few calls in a row.
MaxAdminCalls == 2

AdminNames == {<<"a", "l">>, <<"B", "o">>, <<"C", "y">>}
AdminRoles == {"admin", "parent", "child"}
AdminUpdates ==
  {u \in [name : {<<>>, <<<<"B", "o">>>>},
          role : {<<>>} \cup {<<r>> : r \in {"parent", "other"}},
          permissions : {<<>>}] : TRUE}

AdminCreateFamily ==
  /\ createFamily("FAM123", <<"A", "l">>, 1)
  /\ UNCHANGED <<chatVars, query, running>>

\* A member who was told the family code joins in between.
AdminLogin ==
  /\ authenticateFamilyMember("FAM123", <<"C", "y">>, 1)
  /\ nextUserId' <= MaxIds + 1
  /\ UNCHANGED <<chatVars, query, running>>

AdminAddMember ==
  \E adminUser \in Actors, name \in AdminNames, role \in AdminRoles :
     /\ addFamilyMember(adminUser, name, role, 1)
     /\ nextUserId' <= MaxIds + 1
     /\ nextActionId' <= MaxAdminCalls + 1
     /\ UNCHANGED <<chatVars, query, running>>

AdminEditMember ==
  \E adminUser \in Actors, memberId \in MemberIds, updates \in AdminUpdates :
     /\ editFamilyMember(adminUser, memberId, updates)
     /\ nextActionId' <= MaxAdminCalls + 1
     /\ UNCHANGED <<chatVars, query, running>>

AdminRemoveMember ==
  \E adminUser \in Actors, memberId \in MemberIds :
     /\ removeFamilyMember(adminUser, memberId)
     /\ nextActionId' <= MaxAdminCalls + 1
     /\ UNCHANGED <<chatVars, query, running>>

AdminChangeRole ==
  \E adminUser \in Actors, memberId \in MemberIds, newRole \in Roles :
     /\ changeMemberRole(adminUser, memberId, newRole)
     /\ nextActionId' <= MaxAdminCalls + 1
     /\ UNCHANGED <<chatVars, query, running>>

NextAdmin ==
  \/ AdminCreateFamily
  \/ AdminLogin
  \/ AdminAddMember
  \/ AdminEditMember
  \/ AdminRemoveMember
  \/ AdminChangeRole

SpecAdmin == Init /\ [][NextAdmin]_vars

\* --------------------------------------- admin operations on failing storage
\* The admin operations while any of their AsyncStorage calls may reject.
MaxLoggedCalls == 2
MaxFaultIds == 2

FaultNames == {<<"B", "o">>}

\* Every call resolves, or exactly one of the four rejects.
FaultOutcomes ==
  {io \in StorageOutcomes :
     Cardinality({f \in DOMAIN io : ~io[f]}) <= 1}
FaultRoles == {"parent", "child"}
FaultUpdates ==
  {[NoUpdates EXCEPT !.role = <<"parent">>],
   [NoUpdates EXCEPT !.name = <<<<"B", "o">>>>]}

\* The four admin calls, each with one of the given storage outcomes, while
\* no more than maxCalls action ids have been given out.
addMemberWith(outcomes, maxCalls) ==
  \E io \in outcomes, adminUser \in Actors,
     name \in FaultNames, role \in FaultRoles :
     /\ addFamilyMemberOn(io, adminUser, name, role, 1)
     /\ nextUserId' <= MaxFaultIds + 1
     /\ nextActionId' <= maxCalls + 1
     /\ UNCHANGED <<chatVars, query, running>>

editMemberWith(outcomes, maxCalls) ==
  \E io \in outcomes, adminUser \in Actors,
     memberId \in MemberIds, updates \in FaultUpdates :
     /\ editFamilyMemberOn(io, adminUser, memberId, updates)
     /\ nextActionId' <= maxCalls + 1
     /\ UNCHANGED <<chatVars, query, running>>

removeMemberWith(outcomes, maxCalls) ==
  \E io \in outcomes, adminUser \in Actors, memberId \in MemberIds :
     /\ removeFamilyMemberOn(io, adminUser, memberId)
     /\ nextActionId' <= maxCalls + 1
     /\ UNCHANGED <<chatVars, query, running>>

changeRoleWith(outcomes, maxCalls) ==
  \E io \in outcomes, adminUser \in Actors,
     memberId \in MemberIds, newRole \in FaultRoles :
     /\ changeMemberRoleOn(io, adminUser, memberId, newRole)
     /\ nextActionId' <= maxCalls + 1
     /\ UNCHANGED <<chatVars, query, running>>

FaultCreateFamily ==
  /\ createFamily("FAM123", <<"A", "l">>, 1)
  /\ UNCHANGED <<chatVars, query, running>>

FaultAddMember == addMemberWith(FaultOutcomes, MaxLoggedCalls)
FaultEditMember == editMemberWith(FaultOutcomes, MaxLoggedCalls)
FaultRemoveMember == removeMemberWith(FaultOutcomes, MaxLoggedCalls)
FaultChangeRole == changeRoleWith(FaultOutcomes, MaxLoggedCalls)

NextFaults ==
  \/ FaultCreateFamily
  \/ FaultAddMember
  \/ FaultEditMember
  \/ FaultRemoveMember
  \/ FaultChangeRole

SpecFaults == Init /\ [][NextFaults]_vars

\* ------------------------------------ admin operations on a failing log only
\* The same calls while the directory can be read and written and the read
\* or the write of the admin log may reject.
LogFailures ==
  {[StorageWorks EXCEPT !.readLog = FALSE],
   [StorageWorks EXCEPT !.writeLog = FALSE]}

LogOutcomes == {StorageWorks} \cup LogFailures

MaxSwallowedCalls == 1

LogFaultCreateFamily ==
  /\ createFamily("FAM123", <<"A", "l">>, 1)
  /\ UNCHANGED <<chatVars, query, running>>

LogFaultAddMember == addMemberWith(LogOutcomes, MaxSwallowedCalls)
LogFaultEditMember == editMemberWith(LogOutcomes, MaxSwallowedCalls)
LogFaultRemoveMember == removeMemberWith(LogOutcomes, MaxSwallowedCalls)
LogFaultChangeRole == changeRoleWith(LogOutcomes, MaxSwallowedCalls)

NextLogFaults ==
  \/ LogFaultCreateFamily
  \/ LogFaultAddMember
  \/ LogFaultEditMember
  \/ LogFaultRemoveMember
  \/ LogFaultChangeRole

SpecLogFaults == Init /\ [][NextLogFaults]_vars

\* ------------------------------------------ calls that interleave at awaits
\* AuthService is a set of async functions: a call runs until an await, other
\* calls run meanwhile, and the call resumes with what its read returned.
\* Every storage call resolves here.

MaxCallsPerSlot == 2

RaceCode == "FAM123"
RaceNames == {<<"B", "o">>, <<"C", "y">>}
RaceUpdates == {[NoUpdates EXCEPT !.role = <<"parent">>],
                [NoUpdates EXCEPT !.name = <<<<"Z", "o">>>>]}

free(s) ==
  running[s].pc \in {"idle", "done"} /\ running[s].calls < MaxCallsPerSlot

started(s, op) ==
  [NoRunningCall EXCEPT !.op = op, !.calls = running[s].calls + 1]

finished(c) == [NoCall EXCEPT !.op = c.op, !.err = c.err, !.ret = c.ret]

RaceCreateFamily ==
  /\ \A s \in Slots : running[s].pc \in {"idle", "done"}
  /\ createFamily(RaceCode, <<"A", "l">>, 1)
  /\ UNCHANGED <<chatVars, query, running>>

\* editFamilyMember up to `await this.getFamilyMembers()`.
EditRead ==
  \E s \in Slots, i \in DOMAIN members, updates \in RaceUpdates :
     /\ free(s)
     /\ LET adminUser == Administrator
            call == [started(s, "editMember") EXCEPT
                       !.adminUser = adminUser,
                       !.memberId = members[i].id,
                       !.updates = updates]
            rejected == [call EXCEPT !.pc = "done",
                                     !.err = "InsufficientPermissions"]
        IN IF ~hasPermission(adminUser.role, "canEditMembers")
             THEN /\ running' = [running EXCEPT ![s] = rejected]
                  /\ last' = finished(rejected)
             ELSE /\ running' = [running EXCEPT ![s] =
                         [call EXCEPT
                            !.pc = "membersRead",
                            !.familyMembers = getFamilyMembers(StorageWorks)]]
                  /\ last' = last
     /\ UNCHANGED <<familyCode, members, currentUser, familySettings,
                    adminActions, nextUserId, nextActionId, creator>>
     /\ UNCHANGED <<chatVars, query>>

\* What editFamilyMember would save if it merged its update into the
\* directory as stored at the moment of the write.
editSavesFresh(c) ==
  LET memberIndex == findIndex(members, LAMBDA m : m.id = c.memberId)
      readIndex == findIndex(c.familyMembers, LAMBDA m : m.id = c.memberId)
  IN IF memberIndex = 0
       THEN [c.familyMembers EXCEPT ![readIndex] = editedMember(@, c.updates)]
       ELSE [members EXCEPT ![memberIndex] = editedMember(@, c.updates)]

\* The array editFamilyMember hands to saveFamilyMembers: the array it read,
\* with the edited member replaced.
editSaves(c) ==
  LET memberIndex == findIndex(c.familyMembers, LAMBDA m : m.id = c.memberId)
  IN [c.familyMembers EXCEPT ![memberIndex] = editedMember(@, c.updates)]

\* editFamilyMember from the lookup to `await this.saveFamilyMembers(...)`.
EditSave ==
  \E s \in Slots :
     /\ running[s].op = "editMember"
     /\ running[s].pc = "membersRead"
     /\ LET c == running[s]
            err == editError(c.adminUser, c.memberId, c.updates,
                             c.familyMembers)
            rejected == [c EXCEPT !.pc = "done", !.err = err]
            memberIndex == findIndex(editSaves(c),
                                     LAMBDA m : m.id = c.memberId)
        IN IF err # "ok"
             THEN /\ running' = [running EXCEPT ![s] = rejected]
                  /\ last' = finished(rejected)
                  /\ members' = members
             ELSE /\ members' = editSaves(c)
                  /\ running' = [running EXCEPT ![s] =
                         [c EXCEPT !.pc = "saved",
                                   !.ret = <<editSaves(c)[memberIndex]>>]]
                  /\ last' = last
     /\ UNCHANGED <<familyCode, currentUser, familySettings, adminActions,
                    nextUserId, nextActionId, creator>>
     /\ UNCHANGED <<chatVars, query>>

\* logAdminAction up to `await AsyncStorage.getItem(ADMIN_ACTIONS)`.
EditLogRead ==
  \E s \in Slots :
     /\ running[s].op = "editMember"
     /\ running[s].pc = "saved"
     /\ running' = [running EXCEPT ![s] =
            [@ EXCEPT !.pc = "logRead", !.actions = adminActions]]
     /\ UNCHANGED <<authVars, chatVars, query>>

\* logAdminAction from the push to the setItem; editFamilyMember returns.
EditLogWrite ==
  \E s \in Slots :
     /\ running[s].op = "editMember"
     /\ running[s].pc = "logRead"
     /\ LET c == running[s]
        IN /\ adminActions' = logAdminAction(c.actions, c.adminUser.id,
                                             "edit_member", c.memberId)
           /\ nextActionId' = nextActionId + 1
           /\ running' = [running EXCEPT ![s] = [c EXCEPT !.pc = "done"]]
           /\ last' = finished(c)
     /\ UNCHANGED <<familyCode, members, currentUser, familySettings,
                    nextUserId, creator>>
     /\ UNCHANGED <<chatVars, query>>

\* authenticateFamilyMember up to `await AsyncStorage.getItem(FAMILY_CODE)`.
AuthReadCode ==
  \E s \in Slots, name \in RaceNames :
     /\ free(s)
     /\ running' = [running EXCEPT ![s] =
            [started(s, "authenticate") EXCEPT
               !.name = name,
               !.storedFamilyCode = familyCode,
               !.pc = "codeRead"]]
     /\ UNCHANGED <<authVars, chatVars, query>>

\* authenticateFamilyMember: `await AsyncStorage.getItem(FAMILY_MEMBERS)` and
\* the comparison of the codes that follows it.
AuthReadMembers ==
  \E s \in Slots :
     /\ running[s].op = "authenticate"
     /\ running[s].pc = "codeRead"
     /\ LET c == running[s]
            rejected == [c EXCEPT !.pc = "done", !.err = "InvalidFamilyCode"]
        IN IF invalidFamilyCode(c.storedFamilyCode, RaceCode)
             THEN /\ running' = [running EXCEPT ![s] = rejected]
                  /\ last' = finished(rejected)
             ELSE /\ running' = [running EXCEPT ![s] =
                         [c EXCEPT !.pc = "membersRead",
                                   !.familyMembers = members]]
                  /\ last' = last
     /\ UNCHANGED <<familyCode, members, currentUser, familySettings,
                    adminActions, nextUserId, nextActionId, creator>>
     /\ UNCHANGED <<chatVars, query>>

\* A bug generateUserId could have: two new members get the same id.
generatedUserIdOfName(c) == Len(c.familyMembers) + 1

\* generateUserId: a fresh id.
generatedUserId(c) == nextUserId

\* authenticateFamilyMember from the lookup by name to
\* `await this.saveFamilyMembers(familyMembers)`.
AuthSave ==
  \E s \in Slots :
     /\ running[s].op = "authenticate"
     /\ running[s].pc = "membersRead"
     /\ LET c == running[s]
            idx == findByName(c.familyMembers, c.name)
            existingUser == existingUserSeen(c.familyMembers[idx], 1)
            newMember == [id |-> generatedUserId(c), name |-> c.name,
                          isOnline |-> TRUE, lastSeen |-> 1,
                          role |-> "other", isActive |-> TRUE,
                          permissions |-> getRolePermissions("other")]
        IN IF idx # 0
             THEN /\ members' = [c.familyMembers EXCEPT ![idx] = existingUser]
                  /\ nextUserId' = nextUserId
                  /\ running' = [running EXCEPT ![s] =
                         [c EXCEPT !.pc = "saved", !.ret = <<existingUser>>]]
             ELSE /\ nextUserId <= MaxIds
                  /\ members' = Append(c.familyMembers, newMember)
                  /\ nextUserId' = nextUserId + 1
                  /\ running' = [running EXCEPT ![s] =
                         [c EXCEPT !.pc = "saved", !.ret = <<newMember>>]]
     /\ UNCHANGED <<familyCode, currentUser, familySettings, adminActions,
                    nextActionId, creator, last>>
     /\ UNCHANGED <<chatVars, query>>

\* authenticateFamilyMember: `await this.setCurrentUser(...)` and the return.
AuthSetCurrentUser ==
  \E s \in Slots :
     /\ running[s].op = "authenticate"
     /\ running[s].pc = "saved"
     /\ LET c == running[s]
        IN /\ currentUser' = c.ret
           /\ running' = [running EXCEPT ![s] = [c EXCEPT !.pc = "done"]]
           /\ last' = finished(c)
     /\ UNCHANGED <<familyCode, members, familySettings, adminActions,
                    nextUserId, nextActionId, creator>>
     /\ UNCHANGED <<chatVars, query>>

NextRace ==
  \/ RaceCreateFamily
  \/ EditRead
  \/ EditSave
  \/ EditLogRead
  \/ EditLogWrite
  \/ AuthReadCode
  \/ AuthReadMembers
  \/ AuthSave
  \/ AuthSetCurrentUser

SpecRace == Init /\ [][NextRace]_vars

\* ==================================================================== claims
\* The stored record of the member with this id (ids are unique).
stored(ms, id) == ms[findIndex(ms, LAMBDA m : m.id = id)]
isStored(ms, id) == \E i \in DOMAIN ms : ms[i].id = id

\* C1: in every reachable state each member of the directory has exactly the
\* permission set that getRolePermissions gives for the member's role.
C1_PermissionsFollowRole ==
  \A i \in DOMAIN members :
     members[i].permissions = getRolePermissions(members[i].role)

\* An editMember has just given a member that was created as "other" or as
\* "admin" the role parent, with the parent's permission set.
C1_Witness ==
  /\ last.op = "editMember" /\ last.err = "ok"
  /\ last.ret # <<>> /\ last.ret[1].role = "parent"
  /\ isStored(members, last.ret[1].id)
  /\ stored(members, last.ret[1].id).permissions.canAddMembers
  /\ ~stored(members, last.ret[1].id).permissions.canRemoveMembers

\* The capabilities the canonical table grants to a role; none to a value
\* that is not a role.
CanonicalGrants(role) ==
  CASE role = "admin" -> Capabilities
    [] role = "parent" -> {"canAddMembers", "canEditMembers",
                           "canModerateContent", "canViewAnalytics",
                           "canInviteGuests"}
    [] role = "grandparent" -> {"canViewAnalytics"}
    [] OTHER -> {}

\* C2: getRolePermissions returns, for each of the five roles, the row of
\* the canonical table over exactly the eight capabilities, and for any
\* other value all eight capabilities false.
C2_TableIsCanonical ==
  query.fn = "getRolePermissions"
  => /\ query.permissions # <<>>
     /\ DOMAIN query.permissions[1] = Capabilities
     /\ \A c \in Capabilities :
           query.permissions[1][c] <=> c \in CanonicalGrants(query.role)
     /\ query.role \notin Roles
        => \A c \in Capabilities : ~query.permissions[1][c]

\* getRolePermissions has just been asked for a value that is no role.
C2_Witness ==
  /\ query.fn = "getRolePermissions"
  /\ query.role = "guest"
  /\ \A c \in Capabilities : ~query.permissions[1][c]

\* C3: authenticate with a family code different from the stored one, or
\* with none stored, fails with InvalidFamilyCode (returns no member) and
\* changes neither the directory nor the current-user record.
C3_WrongCodeChangesNothing ==
  [][\A code \in SessionLoginCodes, name \in Names, t \in LoginTimes :
       (/\ last'.op = "authenticate"
        /\ familyCode # <<code>>
        /\ authenticateFamilyMember(code, name, t))
       => (/\ last'.err = "InvalidFamilyCode"
           /\ last'.ret = <<>>
           /\ members' = members
           /\ currentUser' = currentUser
           /\ familyCode' = familyCode)]_vars

\* An authenticate has just been rejected while the directory held two
\* members, one of them offline, and a user was logged in.
C3_Witness ==
  /\ last.op = "authenticate" /\ last.err = "InvalidFamilyCode"
  /\ Len(members) = 2
  /\ currentUser # <<>>
  /\ \E i \in DOMAIN members : ~members[i].isOnline

\* C4 as claimed: once createFamily(code, name) has succeeded, every later
\* successful authenticate with a name equal to name up to letter case
\* returns the creator's record (same id, still admin) and adds no member.
C4_AnyLaterLoginReturnsCreator ==
  [][\A code \in LoginCodes, name \in Names, t \in Times :
       (/\ last'.op = "authenticate"
        /\ creator # <<>>
        /\ toLowerCase(name) = toLowerCase(creator[1].name)
        /\ authenticateFamilyMember(code, name, t)
        /\ last'.err = "ok")
       => (/\ last'.ret # <<>>
           /\ last'.ret[1].id = creator[1].id
           /\ last'.ret[1].role = "admin"
           /\ Len(members') = Len(members))]_vars

\* C4 amended: the same, for every such authenticate made while the creator's
\* record is still stored under a name equal to name up to letter case and
\* still has the admin role (no editMember renamed or demoted it).
C4_LoginReturnsUneditedCreator ==
  [][\A code \in LoginCodes, name \in Names, t \in Times :
       (/\ last'.op = "authenticate"
        /\ creator # <<>>
        /\ toLowerCase(name) = toLowerCase(creator[1].name)
        /\ \E i \in DOMAIN members :
              /\ members[i].id = creator[1].id
              /\ members[i].role = "admin"
              /\ toLowerCase(members[i].name) = toLowerCase(name)
        /\ authenticateFamilyMember(code, name, t)
        /\ last'.err = "ok")
       => (/\ last'.ret # <<>>
           /\ last'.ret[1].id = creator[1].id
           /\ last'.ret[1].role = "admin"
           /\ Len(members') = Len(members)
           /\ currentUser' = last'.ret)]_vars

\* The creator logged out and a later authenticate returned the creator's
\* record again, with other members present in the directory.
C4_Witness ==
  /\ last.op = "authenticate" /\ last.err = "ok"
  /\ creator # <<>> /\ last.ret # <<>>
  /\ last.ret[1].id = creator[1].id
  /\ last.ret[1].role = "admin"
  /\ Len(members) > 1

\* C5 as claimed: removeMember by the administrator on the administrator's
\* own id fails with CannotRemoveSelf and leaves the directory unchanged.
C5_SelfRemovalIsCannotRemoveSelf ==
  [][\A a \in Actors :
       (/\ last'.op = "removeMember"
        /\ a.role = "admin"
        /\ isStored(members, a.id)
        /\ stored(members, a.id).role = "admin"
        /\ removeFamilyMember(a, a.id))
       => (last'.err = "CannotRemoveSelf" /\ members' = members)]_vars

\* C6: removeMember by an actor whose role lacks canRemoveMembers fails with
\* InsufficientPermissions for every target id, and leaves the directory
\* and the admin log unchanged.
C6_RemoveNeedsPermissionFirst ==
  [][\A a \in Actors, id \in MemberIds :
       (/\ last'.op = "removeMember"
        /\ a.role \in {"parent", "grandparent", "child", "other"}
        /\ removeFamilyMember(a, id))
       => (/\ last'.err = "InsufficientPermissions"
           /\ members' = members
           /\ adminActions' = adminActions)]_vars

\* A removeMember has just been rejected for lack of permission while the
\* directory held the administrator and at least one other member.
C6_Witness ==
  /\ last.op = "removeMember" /\ last.err = "InsufficientPermissions"
  /\ Len(members) >= 2
  /\ \E i \in DOMAIN members : members[i].role = "parent"

\* C7: after every logged admin operation the log holds at most 100 records
\* and they are the last min(n, 100) of the n logged so far, in the order
\* logged: an append to a full log drops the oldest record and keeps the
\* other 99 and the new one, an append to a shorter log keeps all.
C7_LogKeepsLastHundred ==
  [][nextActionId' # nextActionId
       => LET n == nextActionId' - 1
              k == Len(adminActions')
          IN /\ k = (IF n < 100 THEN n ELSE 100)
             /\ \A i \in 1..k : adminActions'[i].id = n - k + i
             /\ IF Len(adminActions) = 100
                  THEN SubSeq(adminActions', 1, 99) = Tail(adminActions)
                  ELSE SubSeq(adminActions', 1, k - 1) = adminActions]_vars

\* The 102nd record has been logged: the log holds the records 3 to 102.
C7_Witness ==
  /\ nextActionId = 103
  /\ Len(adminActions) = 100
  /\ adminActions[1].id = 3
  /\ adminActions[100].id = 102

\* C8: the list the chat screen holds for the conversation of the current
\* user A with member B is exactly the stored messages whose sender and
\* receiver are A and B in either direction, in their stored order, which is
\* the order they were sent in; no message of another pair is in it.
C8_ConversationIsThePair ==
  (chat.open /\ chat.chatId = <<>> /\ chat.memberId # <<>>
     /\ chat.currentUser # <<>>)
  => LET A == idOf(chat.currentUser)
         B == chat.memberId
     IN /\ chat.messages =
             SelectSeq(messages,
                       LAMBDA m : {m.senderId, m.receiverId} = {A, B})
        /\ \A i, j \in DOMAIN chat.messages :
              i < j => chat.messages[i].id < chat.messages[j].id
        /\ \A i \in DOMAIN chat.messages :
              \/ (chat.messages[i].senderId = A
                    /\ chat.messages[i].receiverId = B)
              \/ (chat.messages[i].senderId = B
                    /\ chat.messages[i].receiverId = A)

\* The conversation of two different members is open; it holds a message in
\* each direction, and the store holds a message to a third member besides.
C8_Witness ==
  /\ chat.open /\ chat.chatId = <<>> /\ chat.memberId # <<>>
  /\ chat.currentUser # <<>>
  /\ idOf(chat.currentUser) # chat.memberId
  /\ Len(chat.messages) = 2
  /\ chat.messages[1].senderId = chat.memberId
  /\ chat.messages[2].senderId = idOf(chat.currentUser)
  /\ \E i \in DOMAIN messages :
        /\ messages[i].receiverId # <<>>
        /\ messages[i].receiverId \notin {chat.memberId, idOf(chat.currentUser)}

\* C9: a successful editMember with a role in the update, on a target that is
\* not an administrator, stores and returns the target with the new role and
\* exactly getRolePermissions(newRole); so does a successful changeRole.
C9_RoleChangeRecomputesPermissions ==
  [][/\ \A a \in Actors, id \in MemberIds, u \in Updates :
          (/\ last'.op = "editMember"
           /\ last'.err = "ok"
           /\ u.role # <<>>
           /\ isStored(members, id)
           /\ stored(members, id).role # "admin"
           /\ editFamilyMember(a, id, u))
          => (/\ isStored(members', id)
              /\ last'.ret = <<stored(members', id)>>
              /\ last'.ret[1].role = u.role[1]
              /\ last'.ret[1].permissions = getRolePermissions(u.role[1]))
     /\ \A a \in Actors, id \in MemberIds, r \in Roles :
          (/\ last'.op = "changeRole"
           /\ last'.err = "ok"
           /\ changeMemberRole(a, id, r))
          => (/\ isStored(members', id)
              /\ last'.ret = <<stored(members', id)>>
              /\ last'.ret[1].role = r
              /\ last'.ret[1].permissions = getRolePermissions(r))]_vars

\* A changeRole has just made a member a grandparent: view analytics only.
C9_Witness ==
  /\ last.op = "changeRole" /\ last.err = "ok"
  /\ last.ret # <<>> /\ last.ret[1].role = "grandparent"
  /\ last.ret[1].permissions.canViewAnalytics
  /\ ~last.ret[1].permissions.canEditMembers

\* C10 as claimed: a successful editMember that changes no field of the
\* target leaves the admin log unchanged, one that changes a field appends
\* exactly one record.
C10_EditLogsOnlyChanges ==
  [][\A a \in Actors, id \in MemberIds, u \in Updates :
       (/\ last'.op = "editMember"
        /\ last'.err = "ok"
        /\ editFamilyMember(a, id, u))
       => IF members' = members
            THEN adminActions' = adminActions
            ELSE Len(adminActions') = Len(adminActions) + 1]_vars

\* C10 amended: every successful editMember logs exactly one edit_member
\* record naming the actor and the target, whether or not a field changed:
\* the record is the last of the log and the records before it are the old
\* log (without its oldest record when the log was full).
C10_EditAlwaysLogs ==
  [][\A a \in Actors, id \in MemberIds, u \in Updates :
       (/\ last'.op = "editMember"
        /\ last'.err = "ok"
        /\ editFamilyMember(a, id, u))
       => LET k == Len(adminActions')
          IN /\ k >= 1
             /\ adminActions'[k] = [id |-> nextActionId, adminId |-> a.id,
                                    targetMemberId |-> id,
                                    operation |-> "edit_member"]
             /\ SubSeq(adminActions', 1, k - 1) =
                  IF Len(adminActions) < MaxLoggedActions
                    THEN adminActions
                    ELSE Tail(adminActions)]_vars

\* An editMember on the creator returned the record exactly as createFamily
\* wrote it (no field changed) and the log holds the record of that edit.
C10_Witness ==
  /\ last.op = "editMember" /\ last.err = "ok"
  /\ creator # <<>> /\ last.ret = creator
  /\ Len(adminActions) = 1
  /\ adminActions[1].operation = "edit_member"

\* C11 as claimed: editMember on a target that holds the administrator role,
\* by an actor who is not that member, fails with ForbiddenRoleChange whatever
\* the update contains, and the directory is unchanged.
C11_AnyEditOfAdminIsForbidden ==
  [][\A a \in Actors, id \in MemberIds, u \in AdminUpdates :
       (/\ last'.op = "editMember"
        /\ isStored(members, id)
        /\ stored(members, id).role = "admin"
        /\ a.id # id
        /\ editFamilyMember(a, id, u))
       => (last'.err = "ForbiddenRoleChange" /\ members' = members)]_vars

\* C11 amended: the same for an actor whose role has the edit capability and
\* an update that contains a role; with no role in the update the edit of the
\* administrator succeeds and is stored with role and permissions untouched.
C11_RoleEditOfAdminIsForbidden ==
  [][\A a \in Actors, id \in MemberIds, u \in AdminUpdates :
       (/\ last'.op = "editMember"
        /\ isStored(members, id)
        /\ stored(members, id).role = "admin"
        /\ a.id # id
        /\ hasPermission(a.role, "canEditMembers")
        /\ editFamilyMember(a, id, u))
       => IF u.role # <<>>
            THEN /\ last'.err = "ForbiddenRoleChange"
                 /\ members' = members
                 /\ adminActions' = adminActions
            ELSE /\ last'.err = "ok"
                 /\ isStored(members', id)
                 /\ stored(members', id).role = "admin"
                 /\ stored(members', id).permissions =
                      stored(members, id).permissions]_vars

\* A parent's edit that would have made the administrator a parent has just
\* been refused.
C11_Witness ==
  /\ last.op = "editMember" /\ last.err = "ForbiddenRoleChange"
  /\ \E i \in DOMAIN members : members[i].role = "parent"
  /\ \E i \in DOMAIN members : members[i].role = "admin"
  /\ Len(adminActions) = 1

\* C12: changeRole on a target that holds the administrator role fails with
\* CannotChangeAdminRole for every actor whose role passes the permission
\* check (the administrator on its own record too) and every new role
\* (administrator too); the directory and the admin log are unchanged.
C12_AdminRoleCannotBeChanged ==
  [][\A a \in Actors, id \in MemberIds, r \in Roles :
       (/\ last'.op = "changeRole"
        /\ isStored(members, id)
        /\ stored(members, id).role = "admin"
        /\ hasPermission(a.role, "canEditMembers")
        /\ changeMemberRole(a, id, r))
       => (/\ last'.err = "CannotChangeAdminRole"
           /\ last'.ret = <<>>
           /\ members' = members
           /\ adminActions' = adminActions)]_vars

\* A changeRole on an administrator has just been refused in a family that
\* also has a parent.
C12_Witness ==
  /\ last.op = "changeRole" /\ last.err = "CannotChangeAdminRole"
  /\ \E i \in DOMAIN members : members[i].role = "parent"
  /\ \E i \in DOMAIN members : members[i].role = "admin"

\* C13: addMember by an actor whose role lacks the add capability fails with
\* InsufficientPermissions; by an actor that has it, with a name equal up to
\* letter case to a stored member's name, it fails with DuplicateMember; in
\* both cases the directory and the admin log are unchanged.
C13_AddChecksPermissionThenName ==
  [][\A a \in Actors, name \in AdminNames, role \in AdminRoles :
       (/\ last'.op = "addMember"
        /\ addFamilyMember(a, name, role, 1))
       => /\ ~getRolePermissions(a.role).canAddMembers
             => (/\ last'.err = "InsufficientPermissions"
                 /\ members' = members
                 /\ adminActions' = adminActions)
          /\ (/\ getRolePermissions(a.role).canAddMembers
              /\ \E i \in DOMAIN members :
                    toLowerCase(members[i].name) = toLowerCase(name))
             => (/\ last'.err = "DuplicateMember"
                 /\ members' = members
                 /\ adminActions' = adminActions)]_vars

\* An addMember has just been refused as a duplicate while the directory held
\* the creator "Al" alone: the name offered was "al".
C13_Witness ==
  /\ last.op = "addMember" /\ last.err = "DuplicateMember"
  /\ Len(members) = 1
  /\ members[1].name = <<"A", "l">>

\* C14 as claimed: a successful addMember leaves the stored members as they
\* were, appends one member with the given name and role and the role's
\* permission set, neither online nor active, and logs one add_member record
\* with the actor's id and the new member's id.
C14_AddedMemberIsInactive ==
  [][\A a \in Actors, name \in AdminNames, role \in AdminRoles :
       (/\ last'.op = "addMember"
        /\ last'.err = "ok"
        /\ addFamilyMember(a, name, role, 1))
       => LET n == Len(members') IN
          /\ n = Len(members) + 1
          /\ SubSeq(members', 1, n - 1) = members
          /\ members'[n].name = name
          /\ members'[n].role = role
          /\ members'[n].permissions = getRolePermissions(role)
          /\ ~members'[n].isOnline
          /\ ~members'[n].isActive
          /\ Len(adminActions') = Len(adminActions) + 1
          /\ adminActions'[Len(adminActions')].operation = "add_member"
          /\ adminActions'[Len(adminActions')].adminId = a.id
          /\ adminActions'[Len(adminActions')].targetMemberId =
               members'[n].id]_vars

\* C14 amended: the same, except that the new member is offline but its
\* active flag is set from the start; the new member's id is a fresh one, the
\* call returns the new record, and the log record is the last of the log.
C14_AddedMemberIsOfflineAndActive ==
  [][\A a \in Actors, name \in AdminNames, role \in AdminRoles :
       (/\ last'.op = "addMember"
        /\ last'.err = "ok"
        /\ addFamilyMember(a, name, role, 1))
       => LET n == Len(members')
              k == Len(adminActions')
          IN /\ n = Len(members) + 1
             /\ SubSeq(members', 1, n - 1) = members
             /\ members'[n].name = name
             /\ members'[n].role = role
             /\ members'[n].permissions = getRolePermissions(role)
             /\ role = "child"
                => \A c \in Capabilities : ~members'[n].permissions[c]
             /\ ~members'[n].isOnline
             /\ members'[n].isActive
             /\ \A i \in DOMAIN members : members[i].id # members'[n].id
             /\ last'.ret = <<members'[n]>>
             /\ k >= 1
             /\ SubSeq(adminActions', 1, k - 1) =
                  IF Len(adminActions) < MaxLoggedActions
                    THEN adminActions
                    ELSE Tail(adminActions)
             /\ adminActions'[k].operation = "add_member"
             /\ adminActions'[k].adminId = a.id
             /\ adminActions'[k].targetMemberId = members'[n].id]_vars

\* A parent has just added a child as the third member of the family.
C14_Witness ==
  /\ last.op = "addMember" /\ last.err = "ok"
  /\ Len(members) = 3
  /\ members[2].role = "parent"
  /\ members[3].role = "child"
  /\ ~members[3].isOnline
  /\ Len(adminActions) = 2
  /\ adminActions[2].adminId = members[2].id
  /\ adminActions[2].targetMemberId = members[3].id

\* C15: a successful removeMember deletes exactly the member with the given
\* id: the members before it and after it stay, unchanged and in their order;
\* it logs one remove_member record with the actor's id and the target's id;
\* and it succeeds only on a target that is neither an administrator nor the
\* actor.
C15_RemoveDeletesOnlyTheTarget ==
  [][\A a \in Actors, id \in MemberIds :
       (/\ last'.op = "removeMember"
        /\ last'.err = "ok"
        /\ removeFamilyMember(a, id))
       => LET k == Len(adminActions') IN
          /\ \E i \in DOMAIN members :
                /\ members[i].id = id
                /\ members[i].role # "admin"
                /\ members' = SubSeq(members, 1, i - 1) \o
                              SubSeq(members, i + 1, Len(members))
          /\ \A i \in DOMAIN members' : members'[i].id # id
          /\ id # a.id
          /\ k >= 1
          /\ SubSeq(adminActions', 1, k - 1) =
               IF Len(adminActions) < MaxLoggedActions
                 THEN adminActions
                 ELSE Tail(adminActions)
          /\ adminActions'[k].operation = "remove_member"
          /\ adminActions'[k].adminId = a.id
          /\ adminActions'[k].targetMemberId = id]_vars

\* The second of three members has just been removed: the first and the
\* third are left, in that order.
C15_Witness ==
  /\ last.op = "removeMember" /\ last.err = "ok"
  /\ Len(members) = 2
  /\ members[1].id = 1 /\ members[2].id = 3
  /\ adminActions # <<>>
  /\ adminActions[Len(adminActions)].operation = "remove_member"
  /\ adminActions[Len(adminActions)].targetMemberId = 2

\* C16 as claimed: createFamily called while a family code is stored fails
\* with FamilyAlreadyExists and leaves the family code, the directory, the
\* family settings and the current-user record as they were.
C16_SecondCreateFamilyIsRefused ==
  [][\A code \in SessionFamilyCodes, name \in CreatorNames, t \in LoginTimes :
       (/\ last'.op = "createFamily"
        /\ familyCode # <<>>
        /\ createFamily(code, name, t))
       => (/\ last'.err = "FamilyAlreadyExists"
           /\ familyCode' = familyCode
           /\ members' = members
           /\ familySettings' = familySettings
           /\ currentUser' = currentUser)]_vars

\* C17: right after a successful createFamily(code, name) the stored family
\* code is code, the directory is exactly one member, who has the given name,
\* the administrator role and all eight capabilities, who is the current user
\* and the member returned, and the default family settings are stored.
C17_CreateFamilyEstablishesFamily ==
  [][\A code \in SessionFamilyCodes, name \in CreatorNames, t \in LoginTimes :
       (/\ last'.op = "createFamily"
        /\ last'.err = "ok"
        /\ createFamily(code, name, t))
       => (/\ familyCode' = <<code>>
           /\ Len(members') = 1
           /\ members'[1].name = name
           /\ members'[1].role = "admin"
           /\ \A c \in Capabilities : members'[1].permissions[c]
           /\ currentUser' = <<members'[1]>>
           /\ last'.ret = <<members'[1]>>
           /\ familySettings' # <<>>
           /\ familySettings'[1].maxMembers = 20
           /\ ~familySettings'[1].allowGuestInvites
           /\ ~familySettings'[1].requireApprovalForJoining)]_vars

\* createFamily has just succeeded with the code "FAM123": one member, the
\* administrator, logged in and online.
C17_Witness ==
  /\ last.op = "createFamily" /\ last.err = "ok"
  /\ familyCode = <<"FAM123">>
  /\ Len(members) = 1
  /\ currentUser = <<members[1]>>
  /\ members[1].isOnline
  /\ familySettings # <<>>

\* The admin operation a log record's tag belongs to.
operationOf(op) ==
  CASE op = "addMember" -> "add_member"
    [] op = "editMember" -> "edit_member"
    [] op = "removeMember" -> "remove_member"
    [] op = "changeRole" -> "change_role"
    [] OTHER -> "none"

\* C18: the admin log changes only by a successful add, edit, remove or
\* change-role call, whose directory write was stored: that call appends one
\* record with its own tag after the records already there (the oldest is
\* dropped when the log was full), and the record's target is in the
\* directory as the call left it (absent after a remove).  A call that fails,
\* by a refused check or by a failed directory write, leaves the log alone.
C18_LogOnlyGrowsBySuccessfulCalls ==
  [][/\ last'.err # "ok" => adminActions' = adminActions
     /\ adminActions' # adminActions
        => LET k == Len(adminActions')
               target == adminActions'[k].targetMemberId
           IN /\ last'.err = "ok"
              /\ last'.op \in {"addMember", "editMember",
                               "removeMember", "changeRole"}
              /\ k >= 1
              /\ SubSeq(adminActions', 1, k - 1) =
                   IF Len(adminActions) < MaxLoggedActions
                     THEN adminActions
                     ELSE Tail(adminActions)
              /\ adminActions'[k].operation = operationOf(last'.op)
              /\ \A i \in 1..(k - 1) :
                    adminActions'[i].id # adminActions'[k].id
              /\ IF last'.op = "removeMember"
                   THEN ~isStored(members', target)
                   ELSE /\ isStored(members', target)
                        /\ last'.ret = <<stored(members', target)>>]_vars

\* A directory write has just failed with one record in the log: the call
\* was refused and the log still holds that one record.
C18_Witness ==
  /\ last.err = "FailedToSaveFamilyMembers"
  /\ Len(adminActions) = 1
  /\ Len(members) = 2

\* C19: when the read or the write of the admin log fails during addMember,
\* editMember, removeMember or changeRole, the call ends as it does with a
\* working log: the same error or success, the same member returned, the
\* same directory stored; only the log record is missing (the log is left as
\* it was).
C19_LogFailureIsSwallowed ==
  [][/\ last'.op = "addMember"
        => \A io \in LogFailures, a \in Actors, name \in FaultNames,
              role \in FaultRoles :
             addFamilyMemberOn(io, a, name, role, 1)
             => LET err == addError(a, name, members)
                    new == addedMember(nextUserId, name, role, 1)
                IN /\ last'.err = err
                   /\ last'.ret = IF err = "ok" THEN <<new>> ELSE <<>>
                   /\ members' = IF err = "ok" THEN Append(members, new)
                                               ELSE members
                   /\ adminActions' = adminActions
     /\ last'.op = "editMember"
        => \A io \in LogFailures, a \in Actors, id \in MemberIds,
              u \in FaultUpdates :
             editFamilyMemberOn(io, a, id, u)
             => LET err == editError(a, id, u, members)
                IN /\ last'.err = err
                   /\ err = "ok"
                      => /\ last'.ret =
                              <<editedMember(stored(members, id), u)>>
                         /\ stored(members', id) = last'.ret[1]
                         /\ Len(members') = Len(members)
                   /\ err # "ok" => (last'.ret = <<>> /\ members' = members)
                   /\ adminActions' = adminActions
     /\ last'.op = "removeMember"
        => \A io \in LogFailures, a \in Actors, id \in MemberIds :
             removeFamilyMemberOn(io, a, id)
             => LET err == removeError(a, id, members)
                IN /\ last'.err = err
                   /\ members' = IF err = "ok"
                                   THEN withoutMember(members, id)
                                   ELSE members
                   /\ adminActions' = adminActions
     /\ last'.op = "changeRole"
        => \A io \in LogFailures, a \in Actors, id \in MemberIds,
              r \in FaultRoles :
             changeMemberRoleOn(io, a, id, r)
             => LET err == changeRoleError(a, id, members)
                IN /\ last'.err = err
                   /\ err = "ok"
                      => /\ last'.ret =
                              <<roleChangedMember(stored(members, id), r)>>
                         /\ stored(members', id) = last'.ret[1]
                         /\ Len(members') = Len(members)
                   /\ err # "ok" => (last'.ret = <<>> /\ members' = members)
                   /\ adminActions' = adminActions]_vars

\* Two members are stored by successful calls (the second was added) and the
\* log is empty: the add was made while the log could not be written.
C19_Witness ==
  /\ last.op = "addMember" /\ last.err = "ok"
  /\ Len(members) = 2
  /\ adminActions = <<>>

\* C20 as claimed: when the read of the member collection fails during
\* addMember, editMember, removeMember or changeRole, the call fails and the
\* stored directory is left as it was.
C20_ReadFailureIsSurfaced ==
  [][\A io \in FaultOutcomes, a \in Actors :
       ~io.readMembers
       => /\ \A name \in FaultNames, role \in FaultRoles :
               (last'.op = "addMember"
                  /\ addFamilyMemberOn(io, a, name, role, 1))
               => (last'.err # "ok" /\ members' = members)
          /\ \A id \in MemberIds, u \in FaultUpdates :
               (last'.op = "editMember" /\ editFamilyMemberOn(io, a, id, u))
               => (last'.err # "ok" /\ members' = members)
          /\ \A id \in MemberIds :
               (last'.op = "removeMember" /\ removeFamilyMemberOn(io, a, id))
               => (last'.err # "ok" /\ members' = members)
          /\ \A id \in MemberIds, r \in FaultRoles :
               (last'.op = "changeRole" /\ changeMemberRoleOn(io, a, id, r))
               => (last'.err # "ok" /\ members' = members)]_vars

\* C21: messaging operations never remove or alter a stored message, a failed
\* read of the store included: across every send and load the stored
\* collection before the step is a prefix of the collection after it, and a
\* send that stores its message extends the collection by exactly that message.
C21_SendOnlyAppends ==
  [][/\ Len(messages') >= Len(messages)
     /\ SubSeq(messages', 1, Len(messages)) = messages
     /\ (messages' # messages =>
           /\ Len(messages') = Len(messages) + 1
           /\ messages'[Len(messages')].id = nextMessageId)]_vars

\* Two editFamilyMember calls that both returned a member, on two different
\* members, each changing something, and that read the same directory: the
\* second read came before the first write.
interleavedEdits(s1, s2) ==
  LET c1 == running[s1]
      c2 == running[s2]
  IN /\ s1 # s2
     /\ c1.op = "editMember" /\ c2.op = "editMember"
     /\ c1.pc = "done" /\ c2.pc = "done"
     /\ c1.err = "ok" /\ c2.err = "ok"
     /\ c1.ret # <<>> /\ c2.ret # <<>>
     /\ c1.memberId # c2.memberId
     /\ c1.familyMembers = c2.familyMembers
     /\ editSaves(c1) # c1.familyMembers
     /\ editSaves(c2) # c2.familyMembers

\* C22: editMember calls whose reads and writes interleave clobber each
\* other: the save of an editMember call stores, for every member but its own
\* target, the record the call read, whatever has been written since, and
\* returns its edited target; so two calls on two different members that both
\* read before either wrote both succeed and leave a directory with only one
\* of the two edits (the state C22_Witness describes).
C22_EditSaveRestoresWhatItRead ==
  [][\A s \in Slots :
       (/\ running[s].op = "editMember"
        /\ running[s].pc = "membersRead"
        /\ running'[s].pc = "saved")
       => LET c == running[s]
          IN /\ Len(members') = Len(c.familyMembers)
             /\ \A i \in DOMAIN c.familyMembers :
                   c.familyMembers[i].id # c.memberId
                     => members'[i] = c.familyMembers[i]
             /\ running'[s].ret # <<>>
             /\ running'[s].err = "ok"
             /\ stored(members', c.memberId) = running'[s].ret[1]]_vars

\* Both calls returned their edited member and the directory holds the edit
\* of the first and not the edit of the second.
C22_Witness ==
  \E s1, s2 \in Slots :
     /\ interleavedEdits(s1, s2)
     /\ stored(members, running[s1].memberId) = running[s1].ret[1]
     /\ stored(members, running[s2].memberId) # running[s2].ret[1]

\* Two authenticateFamilyMember calls with the stored code and the same name
\* that both returned a member and that both read a directory without the
\* name: both read before either wrote.
racingLogins(s1, s2) ==
  LET c1 == running[s1]
      c2 == running[s2]
  IN /\ s1 # s2
     /\ c1.op = "authenticate" /\ c2.op = "authenticate"
     /\ c1.pc = "done" /\ c2.pc = "done"
     /\ c1.err = "ok" /\ c2.err = "ok"
     /\ c1.name = c2.name
     /\ c1.familyMembers = c2.familyMembers
     /\ findByName(c1.familyMembers, c1.name) = 0

\* C23: two authenticate calls with the correct code and the same name that
\* is not yet in the directory, both reading before either writes: each
\* returns a newly created member, the two ids differ, and the final directory
\* holds one of the two members and not the other.
C23_RacingLoginsCreateTwoKeepOne ==
  \A s1, s2 \in Slots :
     racingLogins(s1, s2) =>
       LET c1 == running[s1]
           c2 == running[s2]
       IN /\ c1.ret # <<>> /\ c2.ret # <<>>
          /\ c1.ret[1].name = c1.name /\ c2.ret[1].name = c2.name
          /\ c1.ret[1].role = "other" /\ c2.ret[1].role = "other"
          /\ ~isStored(c1.familyMembers, c1.ret[1].id)
          /\ ~isStored(c2.familyMembers, c2.ret[1].id)
          /\ c1.ret[1].id # c2.ret[1].id
          /\ ~(isStored(members, c1.ret[1].id)
                /\ isStored(members, c2.ret[1].id))

C23_Witness ==
  \E s1, s2 \in Slots :
     /\ racingLogins(s1, s2)
     /\ isStored(members, running[s1].ret[1].id)
     /\ ~isStored(members, running[s2].ret[1].id)
     /\ currentUser = running[s2].ret

C25_AtMostOneAdmin ==
  familyCode # <<>> =>
    \A i, j \in DOMAIN members :
       (members[i].role = "admin" /\ members[j].role = "admin") => i = j

\* C26: once the family is created every state reached by authenticate,
\* addMember, editMember, changeRole and removeMember calls made one after
\* the other has at least one member with the administrator role.
C26_AtLeastOneAdmin ==
  familyCode # <<>> => \E i \in DOMAIN members : members[i].role = "admin"

\* C27: every changeRole that succeeds, and every editMember that succeeds
\* with a role among its updates, was made by an actor whose role is
\* administrator.
C27_OnlyAdminsChangeRoles ==
  [][/\ \A a \in Actors, id \in MemberIds, r \in Roles :
          (/\ last'.op = "changeRole"
           /\ last'.err = "ok"
           /\ changeMemberRole(a, id, r))
          => a.role = "admin"
     /\ \A a \in Actors, id \in MemberIds, u \in AdminUpdates :
          (/\ last'.op = "editMember"
           /\ last'.err = "ok"
           /\ u.role # <<>>
           /\ editFamilyMember(a, id, u))
          => a.role = "admin"]_vars

\* C28: in every state reached by createFamily, authenticate, addMember,
\* editMember, changeRole and removeMember calls made one after the other, no
\* two members of the directory have names that are equal up to letter case.
C28_NamesAreUnique ==
  \A i, j \in DOMAIN members :
     toLowerCase(members[i].name) = toLowerCase(members[j].name) => i = j

\* C29: every addMember, editMember, changeRole and removeMember that succeeds
\* is authorised by the stored state: the actor is a member of the stored
\* directory and the role stored for it grants the capability the operation
\* needs; an actor record that is out of date does not pass.
C29_AuthorisedByStoredRole ==
  [][/\ \A a \in Actors, name \in AdminNames, r \in AdminRoles :
          (/\ last'.op = "addMember"
           /\ last'.err = "ok"
           /\ addFamilyMember(a, name, r, 1))
          => (/\ isStored(members, a.id)
              /\ hasPermission(stored(members, a.id).role, "canAddMembers"))
     /\ \A a \in Actors, id \in MemberIds, u \in AdminUpdates :
          (/\ last'.op = "editMember"
           /\ last'.err = "ok"
           /\ editFamilyMember(a, id, u))
          => (/\ isStored(members, a.id)
              /\ hasPermission(stored(members, a.id).role, "canEditMembers"))
     /\ \A a \in Actors, id \in MemberIds, r \in Roles :
          (/\ last'.op = "changeRole"
           /\ last'.err = "ok"
           /\ changeMemberRole(a, id, r))
          => (/\ isStored(members, a.id)
              /\ hasPermission(stored(members, a.id).role, "canEditMembers"))
     /\ \A a \in Actors, id \in MemberIds :
          (/\ last'.op = "removeMember"
           /\ last'.err = "ok"
           /\ removeFamilyMember(a, id))
          => (/\ isStored(members, a.id)
              /\ hasPermission(stored(members, a.id).role,
                               "canRemoveMembers"))]_vars

\* C30: createFamily either completes or fails outright: when a call made
\* while no family is stored fails at any of its steps, no family code stays
\* stored (a retry is not refused as an existing family) and the stored
\* directory, current user and settings are as they were, so no family exists
\* without its administrator.
C30_FailedCreateFamilyStoresNothing ==
  [][\A io \in CreateOutcomes, name \in CreatorNames, t \in LoginTimes :
       (/\ last'.op = "createFamily"
        /\ last'.err # "ok"
        /\ ~truthy(familyCode)
        /\ createFamilyOn(io, "FAM123", name, t))
       => (/\ ~truthy(familyCode')
           /\ members' = members
           /\ currentUser' = currentUser
           /\ familySettings' = familySettings)]_vars

====
